---- MODULE Spec2Model ----
(***************************************************************************)
(* Model of nanobind's setup.py: version extraction from nanobind.h at     *)
(* import time, the module-level temporary install directory, and the two  *)
(* overridden setuptools commands (sdist and build_py).                    *)
(*                                                                         *)
(* Text is a sequence of tokens.  A token is either whitespace (a blank or *)
(* a newline), one of the literals the regular expression spells out, an   *)
(* upper-case word, or some other word.                                    *)
(***************************************************************************)
EXTENDS Integers, Sequences, FiniteSets, TLC

VARIABLES
    pc,               \* position of the interpreter in setup.py
    header,           \* text of include/nanobind/nanobind.h
    cwd,              \* working directory of the process
    cmake_on_path,    \* whether the search path holds a cmake executable
    matches,          \* module global `matches` (line 23)
    nanobind_version, \* module global `nanobind_version` (line 24)
    dirs,             \* temporary directories that exist, with their content
    install_dir,      \* module global `install_dir` (line 51)
    package_dir,      \* distribution.package_dir['nanobind']
    cmake_exe,        \* local `cmake_exe` of NanobindBuildPyCommand.run
    build_dir,        \* local `build_dir` of NanobindBuildPyCommand.run
    pending,          \* exception in flight inside the `with` block
    error,            \* exception that left the running code
    exit_status,      \* exit status of the process
    log               \* what a recording double sees: for each command run,
                      \* in order, the sequence of its events

vars == << pc, header, cwd, cmake_on_path, matches, nanobind_version, dirs,
           install_dir, package_dir, cmake_exe, build_dir, pending, error,
           exit_status, log >>

\* what the process finds and never changes: the header file, the working
\* directory and the search path
env == << header, cwd, cmake_on_path >>

None == "None"

\* no exception
NoException == << >>

\* a name of the module that no statement has bound yet
Unbound == << >>

----------------------------------------------------------------------------
(* Bounds *)

MaxLines == 4
MaxCmds == 2
MaxExit == 1

----------------------------------------------------------------------------
(* Header text *)

NL == "\n"
SP == " "
UpperWords == {"MAJOR", "MINOR", "PATCH", "DEV"}

\* #define NB_VERSION_<field> <value>
DefineLine(field, value) ==
    << "#", "define", SP, "NB_VERSION_", field, SP, value >>

\* #define NB_VERSION_<field>       (no replacement text)
BareDefineLine(field) == << "#", "define", SP, "NB_VERSION_", field >>

LineForms ==
    { DefineLine("MAJOR", "1"),
      DefineLine("MINOR", "2"),
      << SP, "#", SP, "define", SP, SP, "NB_VERSION_", "PATCH", SP, SP, "3" >>,
      BareDefineLine("DEV"),
      << "#", "include", SP, "x" >> }

RECURSIVE LinesUpTo(_)
LinesUpTo(n) ==
    IF n = 0 THEN { << >> }
    ELSE LET shorter == LinesUpTo(n - 1)
         IN  shorter \cup { Append(ls, l) : ls \in shorter, l \in LineForms }

\* the lines of a text file, each ended by a newline
RECURSIVE JoinLines(_)
JoinLines(ls) ==
    IF ls = << >> THEN << >>
    ELSE Head(ls) \o << NL >> \o JoinLines(Tail(ls))

HeaderLines == LinesUpTo(MaxLines)

----------------------------------------------------------------------------
\* VERSION_REGEX: the pattern
\*     ^ \s* # \s* define \s+ NB_VERSION_ ([A-Z]+) \s+ (.*) $
\* compiled with re.MULTILINE

IsSpace(t) == t \in {SP, NL}

\* \s* from position i: the first position at or after i that holds no
\* whitespace (Len(s) + 1 when there is none)
RECURSIVE SkipSpace(_, _)
SkipSpace(s, i) ==
    IF i <= Len(s) /\ IsSpace(s[i]) THEN SkipSpace(s, i + 1) ELSE i

\* [A-Z]+ from position i: the first position at or after i that holds no
\* upper-case word
RECURSIVE SkipUpper(_, _)
SkipUpper(s, i) ==
    IF i <= Len(s) /\ s[i] \in UpperWords THEN SkipUpper(s, i + 1) ELSE i

\* .* from position i: `.` does not match a newline
RECURSIVE SkipLine(_, _)
SkipLine(s, i) ==
    IF i <= Len(s) /\ s[i] # NL THEN SkipLine(s, i + 1) ELSE i

Literal(s, i, t) == i <= Len(s) /\ s[i] = t

\* ^ under re.MULTILINE
AtLineStart(s, i) == i = 1 \/ s[i - 1] = NL

NoMatch == [ok |-> FALSE]

\* A match of the pattern that starts at position i.  Every quantifier is
\* greedy, and each is followed by something it cannot itself match, so the
\* first greedy attempt is the only candidate.
VERSION_REGEX_match(s, i) ==
    LET hash   == SkipSpace(s, i)
        def    == SkipSpace(s, hash + 1)
        prefix == SkipSpace(s, def + 1)
        word   == prefix + 1
        gap    == SkipUpper(s, word)
        value  == SkipSpace(s, gap)
        end    == SkipLine(s, value)
    IN  IF /\ AtLineStart(s, i)
           /\ Literal(s, hash, "#")
           /\ Literal(s, def, "define")
           /\ prefix > def + 1
           /\ Literal(s, prefix, "NB_VERSION_")
           /\ gap > word
           /\ value > gap
        THEN [ok |-> TRUE,
              key |-> SubSeq(s, word, gap - 1),
              val |-> SubSeq(s, value, end - 1),
              end |-> end]
        ELSE NoMatch

\* VERSION_REGEX.findall(text): the non-overlapping matches, left to right,
\* as (group 1, group 2) pairs
RECURSIVE VERSION_REGEX_findall(_, _)
VERSION_REGEX_findall(s, i) ==
    IF i > Len(s) THEN << >>
    ELSE LET m == VERSION_REGEX_match(s, i)
         IN  IF m.ok
             THEN << << m.key, m.val >> >> \o VERSION_REGEX_findall(s, m.end)
             ELSE VERSION_REGEX_findall(s, i + 1)

\* dict(pairs): a later pair replaces an earlier one with the same key
RECURSIVE Dict(_)
Dict(pairs) ==
    IF pairs = << >> THEN << >>
    ELSE LET n    == Len(pairs)
             rest == Dict(SubSeq(pairs, 1, n - 1))
             k    == pairs[n][1]
         IN  [x \in DOMAIN rest \cup {k} |->
                 IF x = k THEN pairs[n][2] ELSE rest[x]]

VersionFields == << << "MAJOR" >>, << "MINOR" >>, << "PATCH" >> >>

\* the first replacement field of "{MAJOR}.{MINOR}.{PATCH}" that d lacks,
\* the empty sequence when d has them all
MissingField(d) ==
    IF VersionFields[1] \notin DOMAIN d THEN VersionFields[1]
    ELSE IF VersionFields[2] \notin DOMAIN d THEN VersionFields[2]
    ELSE IF VersionFields[3] \notin DOMAIN d THEN VersionFields[3]
    ELSE << >>

\* "{MAJOR}.{MINOR}.{PATCH}".format(**d)
FormatVersion(d) ==
    d[VersionFields[1]] \o << "." >> \o d[VersionFields[2]] \o << "." >>
        \o d[VersionFields[3]]

----------------------------------------------------------------------------
(* Paths and temporary directories *)

\* this_directory = os.path.abspath(os.path.dirname(__file__))
this_directory == "/repo"

\* os.curdir
os_curdir == "."

\* where the process may have been started
Cwds == {this_directory, "/elsewhere"}

\* the directory a path of package_dir names: a relative path is taken from
\* the working directory, an absolute one as it stands
Resolve(path, dir) == IF path = os_curdir THEN dir ELSE path

Suffixes == {"a", "b"}

\* the names tempfile.mkdtemp(prefix=prefix) may give a directory; the
\* process makes a single directory with the prefix of line 50, so one name
\* stands for whichever name it gets
TempNames(prefix) ==
    IF prefix = "nanobind_cmake_"
    THEN { "/tmp/" \o prefix \o "a" }
    ELSE { "/tmp/" \o prefix \o x : x \in Suffixes }

\* tempfile.mkdtemp(prefix): the names it may pick, none of which exists
Mkdtemp(prefix) == TempNames(prefix) \ DOMAIN dirs

\* the directory table with a new, empty directory d
WithDir(table, d) ==
    [x \in DOMAIN table \cup {d} |-> IF x = d THEN {} ELSE table[x]]

\* TemporaryDirectory.cleanup(): the directory table without d
WithoutDir(table, d) == [x \in DOMAIN table \ {d} |-> table[x]]

\* the directory table after a tool wrote artifact f into d
WithFile(table, d, f) ==
    IF d \in DOMAIN table THEN [table EXCEPT ![d] = @ \cup {f}] ELSE table

ExitCodes == 0 .. MaxExit

Commands == {"build_py", "sdist"}

\* the commands started so far
Started == Len(log)

\* the log with event e added to the command that runs
Logged(e) == [log EXCEPT ![Len(log)] = Append(@, e)]

----------------------------------------------------------------------------
(* Module level of setup.py *)

Init ==
    /\ pc = "L22"
    /\ header \in { JoinLines(ls) : ls \in HeaderLines }
    /\ cwd \in Cwds
    /\ cmake_on_path \in BOOLEAN
    /\ matches = Unbound
    /\ nanobind_version = Unbound
    /\ dirs = << >>
    /\ install_dir = None
    /\ package_dir = None
    /\ cmake_exe = None
    /\ build_dir = None
    /\ pending = NoException
    /\ error = NoException
    /\ exit_status = None
    /\ log = << >>

\* lines 22-23: matches = dict(VERSION_REGEX.findall(f.read()))
ReadHeader ==
    /\ pc = "L22"
    /\ matches' = Dict(VERSION_REGEX_findall(header, 1))
    /\ pc' = "L24"
    /\ UNCHANGED << env, nanobind_version, dirs, install_dir,
                    package_dir, cmake_exe, build_dir, pending, error,
                    exit_status, log >>

\* matches.get(field, "0")
GetOrZero(d, field) == IF field \in DOMAIN d THEN d[field] ELSE << "0" >>

\* Format with a default of 0 for a field the header does not define
Format_Default ==
    /\ pc = "L24"
    /\ nanobind_version' =
          GetOrZero(matches, VersionFields[1]) \o << "." >>
              \o GetOrZero(matches, VersionFields[2]) \o << "." >>
              \o GetOrZero(matches, VersionFields[3])
    /\ pc' = "L50"
    /\ UNCHANGED << env, matches, dirs, install_dir, package_dir, cmake_exe,
                    build_dir, pending, error, exit_status, log >>

\* line 24: nanobind_version = "{MAJOR}.{MINOR}.{PATCH}".format(**matches)
\* format raises KeyError for the first field that matches lacks
Format ==
    /\ pc = "L24"
    /\ IF MissingField(matches) = << >>
       THEN /\ nanobind_version' = FormatVersion(matches)
            /\ pc' = "L50"
            /\ error' = error
       ELSE /\ nanobind_version' = nanobind_version
            /\ pc' = "exit"
            /\ error' = << "KeyError", MissingField(matches) >>
    /\ UNCHANGED << env, matches, dirs, install_dir, package_dir,
                    cmake_exe, build_dir, pending, exit_status, log >>

\* lines 50-51: tmp_install_dir = TemporaryDirectory(prefix="nanobind_cmake_")
CreateInstallDir ==
    /\ pc = "L50"
    /\ \E d \in Mkdtemp("nanobind_cmake_") :
          /\ dirs' = WithDir(dirs, d)
          /\ install_dir' = d
    /\ pc' = "L91"
    /\ UNCHANGED << env, matches, nanobind_version, package_dir,
                    cmake_exe, build_dir, pending, error, exit_status, log >>

\* lines 91-126: setup(..., package_dir={'nanobind': install_dir}, ...)
Setup ==
    /\ pc = "L91"
    /\ package_dir' = install_dir
    /\ pc' = "commands"
    /\ UNCHANGED << env, matches, nanobind_version, dirs, install_dir,
                    cmake_exe, build_dir, pending, error, exit_status, log >>

\* setup() runs the next command of the command line through cmdclass
RunCommand ==
    /\ pc = "commands"
    /\ Started < MaxCmds
    /\ \E c \in Commands :
          /\ log' = Append(log, << << "run", c >> >>)
          /\ pc' = IF c = "sdist" THEN "L58" ELSE "L64"
    /\ UNCHANGED << env, matches, nanobind_version, dirs, install_dir,
                    package_dir, cmake_exe, build_dir, pending, error,
                    exit_status >>

\* setup() returns after the last command of the command line
Finish ==
    /\ pc = "commands"
    /\ pc' = "exit"
    /\ UNCHANGED << env, matches, nanobind_version, dirs, install_dir,
                    package_dir, cmake_exe, build_dir, pending, error,
                    exit_status, log >>

----------------------------------------------------------------------------
(* NanobindSdistCommand.run *)

\* SdistRewrite without the assignment to package_dir
SdistRewrite_Skipped ==
    /\ pc = "L58"
    /\ pc' = "L59"
    /\ UNCHANGED << env, matches, nanobind_version, dirs, install_dir,
                    package_dir, cmake_exe, build_dir, pending, error,
                    exit_status, log >>

\* SdistRewrite followed by the cmake build of NanobindBuildPyCommand.run
SdistRewrite_ThenBuild ==
    /\ pc = "L58"
    /\ package_dir' = os_curdir
    /\ pc' = "L64"
    /\ UNCHANGED << env, matches, nanobind_version, dirs, install_dir,
                    cmake_exe, build_dir, pending, error, exit_status, log >>

\* line 58: self.distribution.package_dir['nanobind'] = os.curdir
SdistRewrite ==
    /\ pc = "L58"
    /\ package_dir' = os_curdir
    /\ pc' = "L59"
    /\ UNCHANGED << env, matches, nanobind_version, dirs, install_dir,
                    cmake_exe, build_dir, pending, error, exit_status, log >>

\* line 59: return super().run(); the packager reads the files under the
\* directory package_dir names when it is called
SdistSuper ==
    /\ pc = "L59"
    /\ log' = Logged(<< "super", "sdist", Resolve(package_dir, cwd) >>)
    /\ pc' = "commands"
    /\ UNCHANGED << env, matches, nanobind_version, dirs, install_dir,
                    package_dir, cmake_exe, build_dir, pending, error,
                    exit_status >>

----------------------------------------------------------------------------
(* NanobindBuildPyCommand.run *)

\* shutil.which("cmake"): the path of the executable, or None
shutil_which == IF cmake_on_path THEN "/usr/bin/cmake" ELSE None

\* line 64: cmake_exe = shutil.which("cmake")
Which ==
    /\ pc = "L64"
    /\ cmake_exe' = shutil_which
    /\ log' = Logged(<< "which", shutil_which >>)
    /\ pc' = "L65"
    /\ UNCHANGED << env, matches, nanobind_version, dirs, install_dir,
                    package_dir, build_dir, pending, error, exit_status >>

\* NotFound without the exit(1): the message is printed and run goes on
NotFound_NoExit ==
    /\ pc = "L65"
    /\ cmake_exe = None
    /\ \E d \in Mkdtemp("tmp") :
          /\ dirs' = [x \in DOMAIN dirs \cup {d} |->
                         IF x = d THEN {} ELSE dirs[x]]
          /\ build_dir' = d
          /\ log' = Logged(<< "mkdtemp", d >>)
    /\ pc' = "L72"
    /\ UNCHANGED << env, matches, nanobind_version, install_dir, package_dir,
                    cmake_exe, pending, error, exit_status >>

\* lines 65-67: if not cmake_exe: print(...); exit(1)
NotFound ==
    /\ pc = "L65"
    /\ cmake_exe = None
    /\ error' = << "SystemExit", 1 >>
    /\ pc' = "exit"
    /\ UNCHANGED << env, matches, nanobind_version, dirs, install_dir,
                    package_dir, cmake_exe, build_dir, pending, exit_status,
                    log >>

\* line 69: with TemporaryDirectory() as build_dir:
EnterWith ==
    /\ pc = "L65"
    /\ cmake_exe # None
    /\ \E d \in Mkdtemp("tmp") :
          /\ dirs' = WithDir(dirs, d)
          /\ build_dir' = d
          /\ log' = Logged(<< "mkdtemp", d >>)
    /\ pc' = "L72"
    /\ UNCHANGED << env, matches, nanobind_version, install_dir,
                    package_dir, cmake_exe, pending, error, exit_status >>

\* Configure with subprocess.call in place of check_call: the exit status
\* of the tool is not looked at
Configure_Unchecked ==
    /\ pc = "L72"
    /\ \E status \in 0 .. MaxExit :
          /\ log' = Logged(<< "configure", status, this_directory,
                               build_dir >>)
          /\ dirs' = IF status = 0 /\ build_dir \in DOMAIN dirs
                     THEN [dirs EXCEPT ![build_dir] = @ \cup {"CMakeCache.txt"}]
                     ELSE dirs
    /\ pc' = "L83"
    /\ UNCHANGED << env, matches, nanobind_version, install_dir, package_dir,
                    cmake_exe, build_dir, pending, error, exit_status >>

\* lines 72-81: subprocess.check_call([cmake_exe, "-S", this_directory,
\* "-B", build_dir, ...]); a non-zero exit raises CalledProcessError
Configure ==
    /\ pc = "L72"
    /\ \E status \in ExitCodes :
          /\ log' = Logged(<< "configure", status, this_directory, build_dir >>)
          /\ IF status = 0
             THEN /\ dirs' = WithFile(dirs, build_dir, "CMakeCache.txt")
                  /\ pending' = pending
                  /\ pc' = "L83"
             ELSE /\ dirs' = dirs
                  /\ pending' = << "CalledProcessError", status >>
                  /\ pc' = "L69exit"
    /\ UNCHANGED << env, matches, nanobind_version, install_dir,
                    package_dir, cmake_exe, build_dir, error, exit_status >>

\* Install with subprocess.call in place of check_call
Install_Unchecked ==
    /\ pc = "L83"
    /\ \E status \in 0 .. MaxExit :
          /\ log' = Logged(<< "install", status, build_dir, install_dir >>)
          /\ dirs' = IF status = 0 /\ install_dir \in DOMAIN dirs
                     THEN [dirs EXCEPT ![install_dir] = @ \cup {"nanobind"}]
                     ELSE dirs
    /\ pc' = "L69exit"
    /\ UNCHANGED << env, matches, nanobind_version, install_dir, package_dir,
                    cmake_exe, build_dir, pending, error, exit_status >>

\* lines 83-86: subprocess.check_call([cmake_exe, "--install", build_dir,
\* "--prefix", install_dir])
Install ==
    /\ pc = "L83"
    /\ \E status \in ExitCodes :
          /\ log' = Logged(<< "install", status, build_dir, install_dir >>)
          /\ IF status = 0
             THEN /\ dirs' = WithFile(dirs, install_dir, "nanobind")
                  /\ pending' = pending
             ELSE /\ dirs' = dirs
                  /\ pending' = << "CalledProcessError", status >>
    /\ pc' = "L69exit"
    /\ UNCHANGED << env, matches, nanobind_version, install_dir,
                    package_dir, cmake_exe, build_dir, error, exit_status >>

\* the workspace removed at the end of the block only, not when an exception
\* leaves it
CleanupWorkspace_OnSuccessOnly(table, d) ==
    IF pending = NoException
    THEN [x \in DOMAIN table \ {d} |-> table[x]]
    ELSE table

\* one temporary directory for both the build and the install output
CleanupWorkspace_AndInstall(table, d) ==
    [x \in DOMAIN table \ {d, install_dir} |-> table[x]]

\* the directory table after TemporaryDirectory.__exit__ of the workspace
CleanupWorkspace(table, d) == WithoutDir(table, d)

\* line 69, leaving the with block: TemporaryDirectory.__exit__ removes the
\* workspace, then a pending exception goes on out of run
ExitWith ==
    /\ pc = "L69exit"
    /\ dirs' = CleanupWorkspace(dirs, build_dir)
    /\ log' = Logged(<< "rmtree", build_dir >>)
    /\ IF pending = NoException
       THEN /\ pc' = "L88"
            /\ UNCHANGED << error, cmake_exe, build_dir >>
       ELSE /\ pc' = "exit"
            /\ error' = pending
            /\ cmake_exe' = None
            /\ build_dir' = None
    /\ pending' = NoException
    /\ UNCHANGED << env, matches, nanobind_version, install_dir,
                    package_dir, exit_status >>

\* line 88: return super().run()
BuildPySuper ==
    /\ pc = "L88"
    /\ log' = Logged(<< "super", "build_py", Resolve(package_dir, cwd) >>)
    /\ pc' = "commands"
    /\ cmake_exe' = None
    /\ build_dir' = None
    /\ UNCHANGED << env, matches, nanobind_version, dirs, install_dir,
                    package_dir, pending, error, exit_status >>

----------------------------------------------------------------------------
(* End of the process *)

\* the exit status of the interpreter: the code of SystemExit, 1 for any
\* other exception that nothing caught, 0 otherwise
StatusOf(e) ==
    IF e = NoException THEN 0 ELSE IF e[1] = "SystemExit" THEN e[2] ELSE 1

\* the directory table after the finalizer of tmp_install_dir ran
Finalize(table, d) == IF d \in DOMAIN table THEN WithoutDir(table, d) ELSE table

\* interpreter shutdown: the finalizer of the module-level TemporaryDirectory
\* (line 50) removes the install directory
ProcessExit ==
    /\ pc = "exit"
    /\ exit_status' = StatusOf(error)
    /\ dirs' = Finalize(dirs, install_dir)
    /\ pc' = "done"
    /\ UNCHANGED << env, matches, nanobind_version, install_dir,
                    package_dir, cmake_exe, build_dir, pending, error, log >>

Next ==
    \/ ReadHeader
    \/ Format
    \/ CreateInstallDir
    \/ Setup
    \/ RunCommand
    \/ Finish
    \/ SdistRewrite
    \/ SdistSuper
    \/ Which
    \/ NotFound
    \/ EnterWith
    \/ Configure
    \/ Install
    \/ ExitWith
    \/ BuildPySuper
    \/ ProcessExit

Spec == Init /\ [][Next]_vars

----------------------------------------------------------------------------
(* What the log says *)

Range(seq) == { seq[i] : i \in DOMAIN seq }

\* the events of the command that runs, or ran last, its "run" first
Cur == IF log = << >> THEN << >> ELSE log[Len(log)]

CurCmd == IF log = << >> THEN None ELSE log[Len(log)][1][2]

\* every event of the process
Events == UNION { Range(log[i]) : i \in DOMAIN log }

Kinds(seq) == { e[1] : e \in Range(seq) }

Count(seq, kind) == Len(SelectSeq(seq, LAMBDA e : e[1] = kind))

\* the tool stages of seq that exited non-zero
Failed(seq) ==
    { e \in Range(seq) : e[1] \in {"configure", "install"} /\ e[2] # 0 }

\* the build workspaces that exist
Workspaces == DOMAIN dirs \cap TempNames("tmp")

----------------------------------------------------------------------------
(* Claims *)

ToolMissing == CurCmd = "build_py" /\ << "which", None >> \in Range(Cur)

\* C1: when build_py cannot find cmake on the search path, that invocation
\* spawns neither configure nor install, creates no build workspace, never
\* reaches the packager, and the process ends with exit status 1.
C1_NoToolNoBuild ==
    ToolMissing =>
        /\ Kinds(Cur) \cap {"configure", "install", "mkdtemp", "super"} = {}
        /\ Workspaces = {}
        /\ build_dir = None
        /\ pc \in {"L65", "exit", "done"}
        /\ pc \in {"exit", "done"} => error = << "SystemExit", 1 >>
        /\ pc = "done" => exit_status = 1

C1_Witness == ToolMissing /\ pc = "done" /\ exit_status = 1

\* C2: build_py delegates to the packager only after configure and install
\* both exited with status zero; when a stage exits non-zero the
\* CalledProcessError leaves run and the packager is not called in that
\* invocation.
C2_PackagerAfterBothStages ==
    CurCmd = "build_py" =>
        /\ "super" \in Kinds(Cur) =>
              /\ \E e \in Range(Cur) : e[1] = "configure" /\ e[2] = 0
              /\ \E e \in Range(Cur) : e[1] = "install" /\ e[2] = 0
              /\ Failed(Cur) = {}
        /\ \A e \in Failed(Cur) :
              /\ "super" \notin Kinds(Cur)
              /\ pc \in {"L69exit", "exit", "done"}
              /\ pc \in {"exit", "done"} =>
                    error = << "CalledProcessError", e[2] >>

C2_Witness ==
    /\ CurCmd = "build_py"
    /\ pc = "done"
    /\ \E e \in Range(Cur) : e[1] = "configure" /\ e[2] = 0
    /\ \E e \in Range(Cur) : e[1] = "install" /\ e[2] # 0
    /\ "super" \notin Kinds(Cur)

\* C3: whenever build_py delegates to the packager, the active source root
\* is the install directory, also when an sdist command ran before it in
\* the same process.
C3_BuildRootIsInstallDir ==
    \A e \in Events :
        e[1] = "super" /\ e[2] = "build_py" => e[3] = install_dir

\* C4 as stated: when sdist delegates to the packager the active source root
\* is the repository root.
C4_SdistRootIsRepository ==
    \A e \in Events :
        e[1] = "super" /\ e[2] = "sdist" => e[3] = this_directory

\* C4 as amended: sdist sets package_dir['nanobind'] to os.curdir before it
\* delegates, so the packager starts with the working directory of the
\* process as the active root (the repository root when the process runs
\* there) and never with the install directory.
C4_SdistRootIsCurdir ==
    /\ pc = "L59" => package_dir = os_curdir
    /\ \A e \in Events :
          e[1] = "super" /\ e[2] = "sdist" =>
              /\ e[3] = cwd
              /\ e[3] # install_dir
              /\ cwd = this_directory => e[3] = this_directory

C4_Witness ==
    /\ cwd = this_directory
    /\ << "super", "build_py", install_dir >> \in Events
    /\ CurCmd = "sdist"
    /\ << "super", "sdist", this_directory >> \in Range(Cur)

\* C5: an sdist invocation never looks for the build tool and never spawns
\* configure or install, and goes straight to the packager, whether or not
\* cmake is installed.
C5_SdistNeverBuilds ==
    CurCmd = "sdist" =>
        /\ Kinds(Cur) \cap {"which", "mkdtemp", "configure", "install"} = {}
        /\ Kinds(Cur) \subseteq {"run", "super"}
        /\ pc \notin {"L58", "L59"} => Count(Cur, "super") = 1
        /\ error = NoException

C5_Witness ==
    /\ ~cmake_on_path
    /\ CurCmd = "sdist"
    /\ Count(Cur, "super") = 1
    /\ pc = "done"
    /\ exit_status = 0

InBlock == pc \in {"L72", "L83", "L69exit"}

\* C6: the build workspace exists only inside the with block: it is gone
\* when the packager is delegated to and gone after a failed stage has
\* propagated; every invocation configures in a directory it has just
\* created, empty, and installs from that same directory.
C6_WorkspaceScoped ==
    /\ InBlock => Workspaces = {build_dir}
    /\ ~InBlock => Workspaces = {}
    /\ pc = "L72" =>
          /\ dirs[build_dir] = {}
          /\ Cur[Len(Cur)] = << "mkdtemp", build_dir >>
    /\ Count(Cur, "mkdtemp") <= 1
    /\ \A n \in DOMAIN log : \A i \in DOMAIN log[n] :
          /\ log[n][i][1] = "configure" =>
                i > 1 /\ log[n][i - 1] = << "mkdtemp", log[n][i][4] >>
          /\ log[n][i][1] = "install" =>
                /\ i > 1
                /\ log[n][i - 1][1] = "configure"
                /\ log[n][i - 1][4] = log[n][i][3]

C6_Witness ==
    /\ pc = "done"
    /\ Failed(Cur) # {}
    /\ "rmtree" \in Kinds(Cur)
    /\ Workspaces = {}
    /\ Len(log) = 2
    /\ \A n \in DOMAIN log : "mkdtemp" \in Kinds(log[n])

\* C7: the install directory exists from its creation at import time until
\* the process ends, through the removal of the build workspace and through
\* a failed stage, keeps what install wrote into it, and is removed at
\* process exit.
C7_InstallDirOutlives ==
    /\ install_dir # None /\ pc # "done" => install_dir \in DOMAIN dirs
    /\ pc = "done" => install_dir \notin DOMAIN dirs
    /\ \A e \in Events :
          e[1] = "install" /\ e[2] = 0 /\ pc # "done" =>
              /\ e[4] = install_dir
              /\ "nanobind" \in dirs[install_dir]

C7_Witness ==
    /\ pc = "exit"
    /\ Failed(Cur) # {}
    /\ "rmtree" \in Kinds(Cur)
    /\ install_dir \in DOMAIN dirs
    /\ "nanobind" \in dirs[install_dir]

\* the header has no definition of NB_VERSION_<field>
Lacks(field) ==
    ~ \E i \in 1 .. Len(header) - 1 :
          header[i] = "NB_VERSION_" /\ header[i + 1] = field

LacksAField == \E field \in {"MAJOR", "MINOR", "PATCH"} : Lacks(field)

\* C8: when the header lacks one of the three definitions, formatting the
\* version raises KeyError at import time: no version string is bound, no
\* temporary directory is created, no command runs, no process is spawned.
C8_MissingFieldFailsAtLoad ==
    LacksAField =>
        /\ nanobind_version = Unbound
        /\ DOMAIN dirs = {}
        /\ install_dir = None
        /\ log = << >>
        /\ pc \in {"L22", "L24", "exit", "done"}
        /\ pc \in {"exit", "done"} => Len(error) = 2 /\ error[1] = "KeyError"
        /\ pc = "done" => exit_status = 1

C8_Witness ==
    /\ LacksAField
    /\ ~Lacks("MAJOR")
    /\ pc = "done"
    /\ Len(error) = 2
    /\ error[1] = "KeyError"
    /\ exit_status = 1

\* the header has a line that defines NB_VERSION_<field> as value
HasDefinition(field, value) ==
    \E i \in DOMAIN header :
        /\ header[i] = "NB_VERSION_"
        /\ i < Len(header)
        /\ header[i + 1] = field
        /\ \E j \in (i + 3) .. (Len(header) - 1) :
              /\ \A k \in (i + 2) .. (j - 1) : header[k] = SP
              /\ header[j] = value
              /\ header[j + 1] = NL

Digits == {"1", "2", "3"}

\* C9: for a header that holds the definitions NB_VERSION_MAJOR a,
\* NB_VERSION_MINOR b and NB_VERSION_PATCH c, in any order, the version is
\* the string a.b.c.
C9_VersionFromDefinitions ==
    pc \notin {"L22", "L24"} =>
        \A a, b, c \in Digits :
            /\ HasDefinition("MAJOR", a)
            /\ HasDefinition("MINOR", b)
            /\ HasDefinition("PATCH", c)
            => nanobind_version = << a, ".", b, ".", c >>

Stages(seq) == SelectSeq(seq, LAMBDA e : e[1] \in {"configure", "install"})

\* C10: in one build_py invocation configure and install run at most once
\* each, install only after configure exited with status zero, and on a
\* successful invocation exactly once each, configure first.
C10_StagesSequential ==
    CurCmd = "build_py" =>
        /\ Count(Cur, "configure") <= 1
        /\ Count(Cur, "install") <= 1
        /\ \A i \in DOMAIN Cur :
              Cur[i][1] = "install" =>
                  \E j \in 1 .. (i - 1) :
                      Cur[j][1] = "configure" /\ Cur[j][2] = 0
        /\ (\E e \in Failed(Cur) : e[1] = "configure") =>
              Count(Cur, "install") = 0
        /\ pc = "L83" =>
              Count(Cur, "configure") = 1 /\ Count(Cur, "install") = 0
        /\ "super" \in Kinds(Cur) =>
              /\ Len(Stages(Cur)) = 2
              /\ Stages(Cur)[1][1] = "configure"
              /\ Stages(Cur)[2][1] = "install"

C10_Witness ==
    /\ CurCmd = "build_py"
    /\ pc = "done"
    /\ \E e \in Failed(Cur) : e[1] = "configure"
    /\ Count(Cur, "install") = 0
    /\ \E e \in Events : e[1] = "super" /\ e[2] = "build_py"

====
